---- MODULE Spec2Model ----
(***************************************************************************)
(* Model of createTextMask (redux-form-input-masks): option validation,    *)
(* format / normalize with their callbacks, and the caret controller.      *)
(*                                                                         *)
(* JavaScript strings are sequences of one-character strings; offsets are  *)
(* 0-based as in the source, sequence indices 1-based.  The helpers of     *)
(* ./utils and ./defaultMaskDefinitions are not part of the source tree    *)
(* at hand and are modelled from the specification (sections 4.1 to 4.5).  *)
(***************************************************************************)
EXTENDS Integers, Sequences, FiniteSets, TLC

VARIABLES opts, status, host, pending, last, stored, timers, log, calls, call, fmt,
          twin

vars == <<opts, status, host, pending, last, stored, timers, log, calls, call, fmt,
          twin>>

(***************************************************************************)
(* JavaScript values                                                       *)
(***************************************************************************)
\* the value `undefined` where a string is expected
Undefined == <<"undefined">>

\* !v for a string-or-undefined v
Falsy(v) == v = Undefined \/ v = <<>>

\* String.prototype.charAt: the empty string outside the string
CharAt(s, i) == IF i >= 0 /\ i < Len(s) THEN s[i + 1] ELSE ""

\* the position numbers of a set, ascending, as a 1-based sequence
SortedSeq(P) ==
  [i \in 1..Cardinality(P) |-> CHOOSE p \in P : Cardinality({q \in P : q < p}) = i - 1]

(***************************************************************************)
(* Mask definition tables.  "default" is the built-in table; "custom" is a *)
(* user table with one slot, which accepts every character but "#".        *)
(***************************************************************************)
IsDigit(c) == c \in {"1", "9"}

IsLetter(c) == c \in {"a", "A", "U"}

AllChars == {"1", "9", "a", "A", "U", "/", "_", "#", "*"}

SlotMarkers(t) == IF t = "default" THEN {"9", "A", "U"} ELSE {"*"}

IsSlot(t, c) == c \in SlotMarkers(t)

\* the predicate of slot marker m applied to character c
Match(t, m, c) ==
  CASE m = "9" -> IsDigit(c)
    [] m = "A" -> IsLetter(c)
    [] m = "U" -> IsLetter(c)
    [] m = "*" -> c \in AllChars \ {"#"}
    [] OTHER -> FALSE

\* the optional transform of slot marker m
Transform(t, m, c) == IF m = "U" /\ c = "a" THEN "A" ELSE c

\* charMatchTest: some slot marker whose predicate accepts c, or "" for none
charMatchTest(c, t) ==
  IF \E m \in SlotMarkers(t) : Match(t, m, c)
  THEN CHOOSE m \in SlotMarkers(t) : Match(t, m, c)
  ELSE ""

SlotPositions(pattern, t) == {i \in 0..(Len(pattern) - 1) : IsSlot(t, pattern[i + 1])}

\* validCaretPositions: every slot position, and the position after the last slot
validCaretPositions(pattern, t) ==
  LET S == SlotPositions(pattern, t)
  IN  IF S = {} THEN <<>>
      ELSE SortedSeq(S \cup {(CHOOSE p \in S : \A q \in S : q <= p) + 1})

(***************************************************************************)
(* Mask applier, stripper, reformatter, transform applier                  *)
(***************************************************************************)
RECURSIVE DropUnmatched(_, _, _)
\* drop the leading raw characters that fail the predicate of slot marker m
DropUnmatched(raw, t, m) ==
  IF raw = <<>> \/ Match(t, m, raw[1]) THEN raw ELSE DropUnmatched(Tail(raw), t, m)

RECURSIVE maskWalk(_, _, _, _, _, _, _, _)
\* walk the pattern from index i (1-based) with the raw characters left;
\* out is the output so far, filled its length after the last filled slot
maskWalk(raw, pattern, placeholder, guide, t, i, out, filled) ==
  IF i > Len(pattern) THEN out
  ELSE LET pc == pattern[i] IN
    IF ~IsSlot(t, pc)
    THEN maskWalk(IF raw # <<>> /\ raw[1] = pc THEN Tail(raw) ELSE raw,
                  pattern, placeholder, guide, t, i + 1, Append(out, pc), filled)
    ELSE LET rest == DropUnmatched(raw, t, pc) IN
      IF rest # <<>>
      THEN maskWalk(Tail(rest), pattern, placeholder, guide, t, i + 1,
                    Append(out, Transform(t, pc, rest[1])), Len(out) + 1)
      ELSE IF guide
           THEN maskWalk(<<>>, pattern, placeholder, guide, t, i + 1,
                         Append(out, placeholder), filled)
           ELSE SubSeq(out, 1, filled)

\* applyMask: an empty value gives the empty text unless allowEmpty is set;
\* with allowEmpty the pattern is walked also for an empty value, which gives
\* the skeleton of literals and placeholders (guide) or nothing (no guide)
applyMask(raw, pattern, placeholder, guide, allowEmpty, t) ==
  IF Falsy(raw) /\ ~allowEmpty THEN <<>>
  ELSE maskWalk(IF raw = Undefined THEN <<>> ELSE raw,
                pattern, placeholder, guide, t, 1, <<>>, 0)

RECURSIVE stripFrom(_, _, _, _, _)
stripFrom(v, pattern, placeholder, t, i) ==
  IF i > Len(v) \/ i > Len(pattern) THEN <<>>
  ELSE (IF IsSlot(t, pattern[i]) /\ v[i] # placeholder THEN <<v[i]>> ELSE <<>>)
       \o stripFrom(v, pattern, placeholder, t, i + 1)

\* maskStrip: the characters at slot positions that are not the placeholder
maskStrip(v, pattern, placeholder, t) ==
  IF Falsy(v) THEN <<>> ELSE stripFrom(v, pattern, placeholder, t, 1)

\* inputReformat: the edited text stripped against the pattern, position by
\* position as maskStrip does; the stripped value is what it returns
inputReformat(v, pattern, placeholder, guide, allowEmpty, t) ==
  maskStrip(v, pattern, placeholder, t)

\* applyTransform: transform the characters that are new with respect to prev
applyTransform(new, prev, strippedPattern, t) ==
  LET p == IF prev = Undefined THEN <<>> ELSE prev IN
  [i \in 1..Len(new) |->
     IF i <= Len(p) /\ p[i] = new[i] THEN new[i]
     ELSE IF i <= Len(strippedPattern) THEN Transform(t, strippedPattern[i], new[i])
     ELSE new[i]]

\* isPatternComplete: every slot position holds a character its slot accepts
isPatternComplete(v, pattern, t) ==
  \A i \in SlotPositions(pattern, t) :
     i < Len(v) /\ Match(t, pattern[i + 1], v[i + 1])

\* firstUnfilledPosition: the first slot position that holds the placeholder
\* (or nothing); the position after the last slot when there is none
firstUnfilledPosition(v, pattern, placeholder, t) ==
  LET S == SlotPositions(pattern, t)
      U == {i \in S : i >= Len(v) \/ v[i + 1] = placeholder}
  IN  IF U # {} THEN CHOOSE p \in U : \A q \in U : p <= q
      ELSE (CHOOSE p \in S : \A q \in S : q <= p) + 1

(***************************************************************************)
(* The engine: options, construction, format, normalize                    *)
(***************************************************************************)
pattern == opts.pattern

\* the placeholder option with its default applied
placeholderOf(o) == IF o.placeholder = Undefined THEN <<"_">> ELSE o.placeholder

placeholder == placeholderOf(opts)[1]

maskDefinitions == opts.table

guide == opts.guide

stripMask == opts.stripMask

allowEmpty == opts.allowEmpty

\* createTextMask without the check of the placeholder against the table
createTextMaskNoMatchTest(o) ==
  IF Falsy(o.pattern) THEN "error: pattern required"
  ELSE IF Falsy(placeholderOf(o)) \/ Len(placeholderOf(o)) # 1
       THEN "error: placeholder length"
  ELSE IF Len(validCaretPositions(o.pattern, o.table)) = 0
       THEN "error: pattern not valid"
  ELSE "ok"

\* the option checks of the constructor, in the order of the source
createTextMask(o) ==
  IF Falsy(o.pattern) THEN "error: pattern required"
  ELSE IF Falsy(placeholderOf(o)) \/ Len(placeholderOf(o)) # 1
       THEN "error: placeholder length"
  ELSE IF Len(validCaretPositions(o.pattern, o.table)) = 0
       THEN "error: pattern not valid"
  ELSE IF charMatchTest(placeholderOf(o)[1], o.table) # ""
       THEN "error: placeholder matches"
  ELSE "ok"

validPositions == validCaretPositions(pattern, maskDefinitions)

strippedPattern == maskStrip(pattern, pattern, placeholder, maskDefinitions)

\* format that takes every non-empty stored value as already formatted
formatAsStored(storeValue, calledFromNormalize) ==
  IF Falsy(storeValue)
  THEN applyMask(<<>>, opts.pattern, placeholderOf(opts)[1], opts.guide,
                 opts.allowEmpty, opts.table)
  ELSE IF ~calledFromNormalize
       THEN storeValue
  ELSE applyMask(storeValue, opts.pattern, placeholderOf(opts)[1], opts.guide,
                 opts.allowEmpty, opts.table)

format(storeValue, calledFromNormalize) ==
  IF Falsy(storeValue)
  THEN applyMask(<<>>, pattern, placeholder, guide, allowEmpty, maskDefinitions)
  ELSE IF ~stripMask /\ ~calledFromNormalize
       THEN storeValue
  ELSE applyMask(storeValue, pattern, placeholder, guide, allowEmpty, maskDefinitions)

\* callbackValue without the stripMask switch
callbackValueFormatted(transformedValue, formattedValue) == formattedValue

\* callbackValue always the stripped value
callbackValueStripped(transformedValue, formattedValue) == transformedValue

\* the value passed to onChange and onCompletePattern
callbackValue(transformedValue, formattedValue) ==
  IF stripMask THEN transformedValue ELSE formattedValue

\* hasValueChanged without the undefined-to-empty exception
hasValueChangedPlain(newValue, previousValue) == newValue # previousValue

hasValueChanged(newValue, previousValue) ==
  /\ newValue # previousValue
  /\ (newValue # <<>> \/ previousValue # Undefined)

\* normalizeEffects with the completion timer not tied to a change of value
normalizeEffectsAnyCall(newValue, formattedValue, previousValue) ==
  (IF opts.hasOnChange /\ newValue # previousValue
      /\ (newValue # <<>> \/ previousValue # Undefined)
   THEN <<[op |-> "onChange", arg |-> newValue]>> ELSE <<>>)
  \o
  (IF /\ opts.hasOnComplete
      /\ isPatternComplete(formattedValue, opts.pattern, opts.table)
   THEN <<[op |-> "setTimeout", arg |-> newValue]>> ELSE <<>>)

\* the callbacks of one normalize call, in program order: a direct call of
\* onChange, then a timer that will call onCompletePattern
normalizeEffects(newValue, formattedValue, previousValue) ==
  (IF opts.hasOnChange /\ hasValueChanged(newValue, previousValue)
   THEN <<[op |-> "onChange", arg |-> newValue]>> ELSE <<>>)
  \o
  (IF /\ opts.hasOnComplete
      /\ isPatternComplete(formattedValue, pattern, maskDefinitions)
      /\ hasValueChanged(newValue, previousValue)
   THEN <<[op |-> "setTimeout", arg |-> newValue]>> ELSE <<>>)

\* normalize: the value returned, the formatted value, and the callbacks made
normalize(updatedValue, previousValue) ==
  LET inputHandledValue ==
        inputReformat(updatedValue, pattern, placeholder, guide, allowEmpty,
                      maskDefinitions)
      strippedValue ==
        maskStrip(inputHandledValue, pattern, placeholder, maskDefinitions)
      transformedValue ==
        applyTransform(strippedValue,
                       IF stripMask THEN previousValue
                       ELSE maskStrip(previousValue, pattern, placeholder,
                                      maskDefinitions),
                       strippedPattern, maskDefinitions)
      formattedValue == format(transformedValue, TRUE)
      newValue == callbackValue(transformedValue, formattedValue)
  IN  [newValue |-> newValue,
       transformedValue |-> transformedValue,
       formattedValue |-> formattedValue,
       effects |-> normalizeEffects(newValue, formattedValue, previousValue)]

(***************************************************************************)
(* Caret controller                                                        *)
(***************************************************************************)
\* goToFirstUnfilledPosition going to the first valid position whatever is filled
goToFirstUnfilledPositionStart(value) == validPositions[1]

\* goToFirstUnfilledPosition: the offset passed to setSelectionRange
goToFirstUnfilledPosition(value) ==
  firstUnfilledPosition(value, pattern, placeholder, maskDefinitions)

\* goToNearestValidPosition with `>=` for `>` in the search loop
goToNearestValidPositionGe(position, direction) ==
  LET vp == validCaretPositions(opts.pattern, opts.table)
      R == {i \in 0..(Len(vp) - 1) : vp[i + 1] >= position}
      nearestIndexToTheRight == CHOOSE i \in R : \A j \in R : i <= j
      index == IF direction = "left" THEN nearestIndexToTheRight - 1
               ELSE nearestIndexToTheRight
      defined == R # {} /\ index >= 0 /\ index < Len(vp)
      fallbackIndex == IF direction = "left" THEN 0 ELSE Len(vp) - 1
  IN  IF defined THEN vp[index + 1] ELSE vp[fallbackIndex + 1]

\* goToNearestValidPosition without the fallback for an undefined caretPos
goToNearestValidPositionNoFallback(position, direction) ==
  LET vp == validCaretPositions(opts.pattern, opts.table)
      R == {i \in 0..(Len(vp) - 1) : vp[i + 1] > position}
      nearestIndexToTheRight == CHOOSE i \in R : \A j \in R : i <= j
      index == IF direction = "left" THEN nearestIndexToTheRight - 1
               ELSE nearestIndexToTheRight
      defined == R # {} /\ index >= 0 /\ index < Len(vp)
  IN  IF defined THEN vp[index + 1] ELSE -1

\* goToNearestValidPosition: the offset passed to setSelectionRange; -1 stands
\* for the value undefined
goToNearestValidPosition(position, direction) ==
  LET vp == validPositions
      R == {i \in 0..(Len(vp) - 1) : vp[i + 1] > position}
      \* nearestIndexToTheRight stays undefined when R is empty
      nearestIndexToTheRight == CHOOSE i \in R : \A j \in R : i <= j
      index == IF direction = "left" THEN nearestIndexToTheRight - 1
               ELSE nearestIndexToTheRight
      defined == R # {} /\ index >= 0 /\ index < Len(vp)
      fallbackIndex == IF direction = "left" THEN 0 ELSE Len(vp) - 1
  IN  IF defined THEN vp[index + 1] ELSE vp[fallbackIndex + 1]

\* the test of the change case: the value grew by one character and holds
\* the pattern's character at the previous caret offset
backspaceAtPatternChar(value, previousValue, previousSelection) ==
  /\ Len(value) = Len(previousValue) + 1
  /\ CharAt(value, previousSelection) = CharAt(pattern, previousSelection)

\* deferredStep with the click branch not testing that the selection is
\* collapsed
deferredStepClickAnySelection(ev, value, selectionStart, selectionEnd) ==
  CASE ev.type = "change" ->
         IF backspaceAtPatternChar(value, ev.previousValue, ev.previousSelection)
         THEN [op |-> "left", position |-> ev.previousSelection,
               caret |-> goToNearestValidPosition(ev.previousSelection, "left")]
         ELSE [op |-> "first", position |-> -1,
               caret |-> goToFirstUnfilledPosition(value)]
    [] ev.type = "focus" ->
         [op |-> "first", position |-> -1, caret |-> goToFirstUnfilledPosition(value)]
    [] ev.type = "click" ->
         IF \E i \in 1..Len(validPositions) : validPositions[i] = selectionStart
         THEN [op |-> "preventDefault", position |-> -1, caret |-> -1]
         ELSE [op |-> "first", position |-> -1,
               caret |-> goToFirstUnfilledPosition(value)]
    [] ev.type = "keydown" ->
         IF ev.key = "ArrowLeft"
         THEN [op |-> "left", position |-> selectionStart,
               caret |-> goToNearestValidPosition(selectionStart, "left")]
         ELSE IF ev.key = "ArrowRight"
         THEN [op |-> "right", position |-> ev.previousSelection,
               caret |-> goToNearestValidPosition(ev.previousSelection, "right")]
         ELSE [op |-> "none", position |-> -1, caret |-> -1]
    [] OTHER -> [op |-> "none", position |-> -1, caret |-> -1]

\* the deferred step of manageCaretPosition for event ev (with its snapshot)
\* on a target that now holds value and selection: the branch taken, the
\* position it starts from and the caret it sets (-1: no setSelectionRange)
deferredStep(ev, value, selectionStart, selectionEnd) ==
  CASE ev.type = "change" ->
         IF backspaceAtPatternChar(value, ev.previousValue, ev.previousSelection)
         THEN [op |-> "left", position |-> ev.previousSelection,
               caret |-> goToNearestValidPosition(ev.previousSelection, "left")]
         ELSE [op |-> "first", position |-> -1,
               caret |-> goToFirstUnfilledPosition(value)]
    [] ev.type = "focus" ->
         [op |-> "first", position |-> -1, caret |-> goToFirstUnfilledPosition(value)]
    [] ev.type = "click" ->
         IF selectionStart = selectionEnd
         THEN IF \E i \in 1..Len(validPositions) : validPositions[i] = selectionStart
              THEN [op |-> "preventDefault", position |-> -1, caret |-> -1]
              ELSE [op |-> "first", position |-> -1,
                    caret |-> goToFirstUnfilledPosition(value)]
         ELSE [op |-> "none", position |-> -1, caret |-> -1]
    [] ev.type = "keydown" ->
         IF ev.key = "ArrowLeft"
         THEN [op |-> "left", position |-> selectionStart,
               caret |-> goToNearestValidPosition(selectionStart, "left")]
         ELSE IF ev.key = "ArrowRight"
         THEN [op |-> "right", position |-> ev.previousSelection,
               caret |-> goToNearestValidPosition(ev.previousSelection, "right")]
         ELSE [op |-> "none", position |-> -1, caret |-> -1]
    [] OTHER -> [op |-> "none", position |-> -1, caret |-> -1]

(***************************************************************************)
(* Bounds and input sets                                                   *)
(***************************************************************************)
\* deferred steps that may be pending at once
MaxPending == 1

\* events dispatched in one behaviour of the queue specification
MaxEvents == 2

\* normalize calls in one behaviour
MaxCalls == 3

\* length of the stored values handed to format
MaxLen == 3

RECURSIVE SeqsUpTo(_, _)
\* the sequences over S of length at most n
SeqsUpTo(S, n) ==
  IF n = 0 THEN {<<>>}
  ELSE LET T == SeqsUpTo(S, n - 1)
       IN  T \cup {Append(t, c) : t \in T, c \in S}

RemoveAt(s, i) == SubSeq(s, 1, i - 1) \o SubSeq(s, i + 1, Len(s))

InsertAt(s, i, c) == SubSeq(s, 1, i) \o <<c>> \o SubSeq(s, i + 1, Len(s))

DefaultOptions ==
  [pattern |-> <<"9", "/", "9">>, placeholder |-> Undefined, table |-> "default",
   guide |-> TRUE, stripMask |-> TRUE, allowEmpty |-> FALSE,
   hasOnChange |-> TRUE, hasOnComplete |-> TRUE]

\* the idle values of the variables a specification does not use
NoLast ==
  [type |-> "", key |-> "", op |-> "", position |-> -1, caret |-> -1,
   previousSelection |-> -1, previousLength |-> -1, selectionStart |-> -1,
   selectionEnd |-> -1, ownSelection |-> -1, ownLength |-> -1]

NoHost == [value |-> <<>>, selectionStart |-> 0, selectionEnd |-> 0]

NoFmt == [x |-> Undefined, once |-> Undefined, twice |-> Undefined, step |-> 0]

NoCall == [previousValue |-> Undefined, newValue |-> Undefined,
           formattedValue |-> Undefined]

NoTwin == [stored |-> Undefined, edit |-> Undefined, shown |-> Undefined,
           shownStripping |-> Undefined, turn |-> ""]

(***************************************************************************)
(* Caret specification: a host input, events dispatched on it, the host's  *)
(* own updates, and the deferred steps run in timer order                  *)
(***************************************************************************)
CaretPatterns == {<<"9", "/", "9">>, <<"/", "9", "/">>}

\* the patterns of the change specification: a literal between the slots, and
\* a literal after them
ChangePatterns == {<<"9", "/", "9">>, <<"9", "9", "/">>}

\* allowEmpty is set, so that the empty field shows the placeholder skeleton
ChangeOptions ==
  {[DefaultOptions EXCEPT !.pattern = p, !.allowEmpty = TRUE] : p \in ChangePatterns}

CaretOptions ==
  {[DefaultOptions EXCEPT !.pattern = p, !.allowEmpty = TRUE] : p \in CaretPatterns}

\* what the host input may show under options o: the formatted values, and
\* these after the user deleted the character before the first unfilled
\* position, or the literal that ends a filled value
DisplayedValues(o) ==
  {applyMask(r, o.pattern, placeholderOf(o)[1], o.guide, o.allowEmpty, o.table) :
     r \in SeqsUpTo({"9"}, Cardinality(SlotPositions(o.pattern, o.table)))}

HostValues(o) ==
  LET caretOf(d) == firstUnfilledPosition(d, o.pattern, placeholderOf(o)[1], o.table)
  IN  DisplayedValues(o) \cup
      {RemoveAt(d, caretOf(d)) : d \in {e \in DisplayedValues(o) : caretOf(e) > 0}}
      \cup {RemoveAt(d, Len(d)) :
              d \in {e \in DisplayedValues(o) :
                       /\ isPatternComplete(e, o.pattern, o.table)
                       /\ ~IsSlot(o.table, e[Len(e)])}}

\* a caret anywhere in the value, or the whole value selected
HostStatesOf ==
  [o \in CaretOptions \cup ChangeOptions \cup {DefaultOptions} |->
     {h \in [value : HostValues(o), selectionStart : 0..Len(o.pattern),
             selectionEnd : 0..Len(o.pattern)] :
        /\ h.selectionStart <= Len(h.value)
        /\ \/ h.selectionEnd = h.selectionStart
           \/ h.selectionStart = 0 /\ h.selectionEnd = Len(h.value)}]

HostStates == HostStatesOf[opts]

\* one update of the host changes the text or the selection
HostMoves ==
  {h \in HostStates :
     \/ h.value = host.value
     \/ h.selectionStart = host.selectionStart /\ h.selectionEnd = host.selectionEnd}

EventKinds ==
  {[type |-> "change", key |-> ""], [type |-> "focus", key |-> ""],
   [type |-> "click", key |-> ""], [type |-> "keydown", key |-> "ArrowLeft"],
   [type |-> "keydown", key |-> "ArrowRight"], [type |-> "keydown", key |-> "a"]}

InitCaret ==
  /\ opts \in CaretOptions
  /\ status = createTextMask(opts)
  /\ host \in HostStates
  /\ pending = <<>>
  /\ last = NoLast
  /\ stored = Undefined /\ timers = <<>> /\ log = <<>> /\ calls = 0
  /\ call = NoCall /\ fmt = NoFmt /\ twin = NoTwin

\* manageCaretPosition, lines 193-197, with the snapshot shared by the pending
\* steps: taking it again overwrites what the older steps captured
ScheduleShared(kind) ==
  pending' = Append([i \in 1..Len(pending) |->
                       [pending[i] EXCEPT !.previousSelection = host.selectionStart,
                                          !.previousValue = host.value]],
                    [type |-> kind.type, key |-> kind.key,
                     previousSelection |-> host.selectionStart,
                     previousValue |-> host.value,
                     ownSelection |-> host.selectionStart,
                     ownLength |-> Len(host.value)])

\* manageCaretPosition, lines 193-197: the snapshot of the target, captured by
\* the timer callback that is queued.  ownSelection and ownLength record what
\* the target held at this dispatch
Schedule(kind) ==
  pending' = Append(pending,
                    [type |-> kind.type, key |-> kind.key,
                     previousSelection |-> host.selectionStart,
                     previousValue |-> host.value,
                     ownSelection |-> host.selectionStart,
                     ownLength |-> Len(host.value)])

\* the mark left in `last` by an event that had no target
NoTarget == [NoLast EXCEPT !.op = "no target"]

\* manageCaretPosition without the test of event.target
DispatchNoGuard(kind, hasTarget) ==
  /\ status = "ok"
  /\ Len(pending) < MaxPending
  /\ Schedule(kind)
  /\ last' = IF hasTarget THEN NoLast ELSE NoTarget
  /\ UNCHANGED <<opts, status, host, stored, timers, log, calls, call, fmt,
               twin>>

\* manageCaretPosition, its synchronous part: snapshot and setTimeout when the
\* event has a target, nothing otherwise
Dispatch(kind, hasTarget) ==
  /\ status = "ok"
  /\ Len(pending) < MaxPending
  /\ IF hasTarget
     THEN Schedule(kind) /\ last' = NoLast
     ELSE pending' = pending /\ last' = NoTarget
  /\ UNCHANGED <<opts, status, host, stored, timers, log, calls, call, fmt,
               twin>>

\* the host applies an edit, a re-render or a caret move of its own
HostUpdate(h) ==
  /\ status = "ok"
  /\ h # host
  /\ host' = h
  /\ last' = NoLast
  /\ UNCHANGED <<opts, status, pending, stored, timers, log, calls, call, fmt,
               twin>>

\* manageCaretPosition, the timer callback of the oldest pending event
Deferred ==
  /\ status = "ok"
  /\ pending # <<>>
  /\ pending' = Tail(pending)
  /\ \E ev \in {Head(pending)} :
     \E r \in {deferredStep(ev, host.value, host.selectionStart, host.selectionEnd)} :
         /\ host' = IF r.caret = -1 /\ r.op \in {"none", "preventDefault"} THEN host
                    ELSE [host EXCEPT !.selectionStart = r.caret,
                                      !.selectionEnd = r.caret]
         /\ last' = [type |-> ev.type, key |-> ev.key, op |-> r.op,
                     position |-> r.position, caret |-> r.caret,
                     previousSelection |-> ev.previousSelection,
                     previousLength |-> Len(ev.previousValue),
                     selectionStart |-> host.selectionStart,
                     selectionEnd |-> host.selectionEnd,
                     ownSelection |-> ev.ownSelection,
                     ownLength |-> ev.ownLength]
  /\ UNCHANGED <<opts, status, stored, timers, log, calls, call, fmt,
               twin>>

NextCaret ==
  \/ \E kind \in EventKinds, hasTarget \in BOOLEAN : Dispatch(kind, hasTarget)
  \/ \E h \in HostMoves : HostUpdate(h)
  \/ Deferred

SpecCaret == InitCaret /\ [][NextCaret]_vars

\* the oldest timer callback leaves the queue.  Of the actions above only
\* Deferred shortens the queue, and it can whenever a callback is pending, so
\* fairness of this action is fairness of Deferred
TimerRuns == pending # <<>> /\ pending' = Tail(pending)

\* the timers of the host run: a pending deferred step is eventually taken
SpecCaretFair == SpecCaret /\ WF_pending(TimerRuns)

(***************************************************************************)
(* Change specification: the caret controller under change events alone,   *)
(* on patterns that end in a literal                                       *)
(***************************************************************************)
InitChange ==
  /\ opts \in ChangeOptions
  /\ status = createTextMask(opts)
  /\ host \in HostStates
  /\ pending = <<>>
  /\ last = NoLast
  /\ stored = Undefined /\ timers = <<>> /\ log = <<>> /\ calls = 0
  /\ call = NoCall /\ fmt = NoFmt /\ twin = NoTwin

NextChange ==
  \/ \E hasTarget \in BOOLEAN : Dispatch([type |-> "change", key |-> ""], hasTarget)
  \/ \E h \in HostMoves : HostUpdate(h)
  \/ Deferred

SpecChange == InitChange /\ [][NextChange]_vars

(***************************************************************************)
(* Queue specification: a bounded number of events, several of which may   *)
(* be waiting for their deferred step; `calls` counts the handler calls    *)
(***************************************************************************)
\* the events whose deferred step uses the snapshot, and focus
QueueKinds ==
  {[type |-> "change", key |-> ""], [type |-> "keydown", key |-> "ArrowRight"],
   [type |-> "focus", key |-> ""]}

\* "9/9" filled and with its last digit deleted, the caret anywhere
QueueHosts ==
  {h \in HostStatesOf[DefaultOptions] :
     /\ h.selectionStart = h.selectionEnd
     /\ h.value \in {<<"9", "/">>, <<"9", "/", "9">>}}

InitQueue ==
  /\ opts = DefaultOptions
  /\ status = createTextMask(opts)
  /\ host \in QueueHosts
  /\ pending = <<>>
  /\ last = NoLast
  /\ stored = Undefined /\ timers = <<>> /\ log = <<>> /\ calls = 0
  /\ call = NoCall /\ fmt = NoFmt /\ twin = NoTwin

\* manageCaretPosition called with an event that has a target
DispatchCounted(kind) ==
  /\ status = "ok"
  /\ calls < MaxEvents
  /\ calls' = calls + 1
  /\ Schedule(kind)
  /\ last' = NoLast
  /\ UNCHANGED <<opts, status, host, stored, timers, log, call, fmt,
               twin>>

NextQueue ==
  \/ \E kind \in QueueKinds : DispatchCounted(kind)
  \/ \E h \in QueueHosts \cap HostMoves : HostUpdate(h)
  \/ Deferred

SpecQueue == InitQueue /\ [][NextQueue]_vars

\* the timers of the host run: a pending deferred step is eventually taken
SpecQueueFair == SpecQueue /\ WF_pending(TimerRuns)

(***************************************************************************)
(* Normalize specification: the form hands each edit of the displayed text *)
(* to normalize with the value it stored last; timers fire in order        *)
(***************************************************************************)
NormPatterns == {<<"9", "/", "9">>, <<"U", "9">>, <<"1", "9">>, <<"9", "/">>}

NormOptions ==
  {[DefaultOptions EXCEPT !.pattern = p, !.guide = g, !.stripMask = s,
                          !.allowEmpty = e, !.hasOnChange = c, !.hasOnComplete = d] :
     p \in NormPatterns, g \in BOOLEAN, s \in BOOLEAN, e \in BOOLEAN,
     c \in BOOLEAN, d \in BOOLEAN}

TypedChars == {"1", "9", "a"}

\* the texts an edit of the displayed text d can leave in the input
Edits(d) ==
  {d, <<>>}
  \cup {InsertAt(d, i, c) : i \in 0..Len(d), c \in TypedChars}
  \cup {RemoveAt(d, i) : i \in 1..Len(d)}

InitNorm ==
  /\ opts \in NormOptions
  /\ status = createTextMask(opts)
  /\ host = NoHost /\ pending = <<>> /\ last = NoLast
  /\ stored = Undefined /\ timers = <<>> /\ log = <<>> /\ calls = 0
  /\ call = NoCall /\ fmt = NoFmt /\ twin = NoTwin

\* one call of normalize by the form: the callbacks it makes before it
\* returns go to the log, its timer to the timer queue
Normalize(updatedValue) ==
  /\ status = "ok"
  /\ calls < MaxCalls
  /\ LET r == normalize(updatedValue, stored)
         sync == SelectSeq(r.effects, LAMBDA e : e.op # "setTimeout")
         later == SelectSeq(r.effects, LAMBDA e : e.op = "setTimeout")
         stamp(e) == [op |-> e.op, arg |-> e.arg, call |-> calls + 1,
                      transformedValue |-> r.transformedValue,
                      formattedValue |-> r.formattedValue]
     IN  /\ stored' = r.newValue
         /\ call' = [previousValue |-> stored, newValue |-> r.newValue,
                     formattedValue |-> r.formattedValue]
         /\ log' = [i \in 1..Len(sync) |-> stamp(sync[i])]
                   \o <<[op |-> "return", arg |-> r.newValue, call |-> calls + 1,
                         transformedValue |-> r.transformedValue,
                         formattedValue |-> r.formattedValue]>>
         /\ timers' = timers \o [i \in 1..Len(later) |-> stamp(later[i])]
  /\ calls' = calls + 1
  /\ UNCHANGED <<opts, status, host, pending, last, fmt,
               twin>>

\* the oldest timer expires: onCompletePattern runs with the captured value
TimerFire ==
  /\ status = "ok"
  /\ timers # <<>>
  /\ log' = Append(log, [Head(timers) EXCEPT !.op = "onCompletePattern"])
  /\ timers' = Tail(timers)
  /\ UNCHANGED <<opts, status, host, pending, last, stored, calls, call, fmt,
               twin>>

NextNorm ==
  \/ \E updatedValue \in Edits(format(stored, FALSE)) : Normalize(updatedValue)
  \/ TimerFire

SpecNorm == InitNorm /\ [][NextNorm]_vars

\* timers expire: a pending timer callback is eventually run
SpecNormFair == SpecNorm /\ WF_vars(TimerFire)

(***************************************************************************)
(* Twin specification: two engines built from options that differ in       *)
(* stripMask only are handed the same edits.  `opts` and `stored` are the  *)
(* engine whose turn it is with stripMask = true; twin.stored is the store *)
(* of the engine with stripMask = false, evaluated while opts.stripMask is *)
(* false; twin.turn says which engine handles the edit next                *)
(***************************************************************************)
TwinOptions ==
  {[DefaultOptions EXCEPT !.pattern = p, !.guide = g, !.allowEmpty = e,
                          !.hasOnChange = FALSE, !.hasOnComplete = FALSE] :
     p \in NormPatterns, g \in BOOLEAN, e \in BOOLEAN}

InitTwin ==
  /\ opts \in TwinOptions
  /\ status = createTextMask(opts)
  /\ host = NoHost /\ pending = <<>> /\ last = NoLast
  /\ stored = Undefined /\ timers = <<>> /\ log = <<>> /\ calls = 0
  /\ call = NoCall /\ fmt = NoFmt
  /\ twin = [stored |-> Undefined, edit |-> Undefined,
             shown |-> format(Undefined, FALSE),
             shownStripping |-> format(Undefined, FALSE), turn |-> "stripping"]

\* the engine with stripMask = true normalizes the edit and its form
\* re-renders
TwinEdit(updatedValue) ==
  /\ status = "ok"
  /\ twin.turn = "stripping"
  /\ calls < MaxCalls
  /\ \E r \in {normalize(updatedValue, stored)} :
       /\ stored' = r.newValue
       /\ twin' = [twin EXCEPT !.edit = updatedValue,
                               !.shownStripping = format(r.newValue, FALSE),
                               !.turn = "formatted"]
  /\ opts' = [opts EXCEPT !.stripMask = FALSE]
  /\ UNCHANGED <<status, host, pending, last, timers, log, calls, call, fmt>>

\* the engine with stripMask = false normalizes the same edit
TwinFollow ==
  /\ status = "ok"
  /\ twin.turn = "formatted"
  /\ \E r \in {normalize(twin.edit, twin.stored)} :
       twin' = [twin EXCEPT !.stored = r.newValue,
                            !.shown = format(r.newValue, FALSE),
                            !.turn = "stripping"]
  /\ opts' = [opts EXCEPT !.stripMask = TRUE]
  /\ calls' = calls + 1
  /\ UNCHANGED <<status, host, pending, last, stored, timers, log, call, fmt>>

NextTwin ==
  \/ \E updatedValue \in Edits(twin.shownStripping) : TwinEdit(updatedValue)
  \/ TwinFollow

SpecTwin == InitTwin /\ [][NextTwin]_vars

(***************************************************************************)
(* Format specification: format applied to a stored value, and again to    *)
(* its own result                                                          *)
(***************************************************************************)
FormatPatterns == {<<"9", "/", "9">>, <<"9", "9", "1">>, <<"U", "9">>}

FormatOptions ==
  {[DefaultOptions EXCEPT !.pattern = p, !.guide = g, !.stripMask = s,
                          !.allowEmpty = e] :
     p \in FormatPatterns, g \in BOOLEAN, s \in BOOLEAN, e \in BOOLEAN}

\* stored values: undefined, empty, raw, formatted, or neither
StoredValues == {Undefined} \cup SeqsUpTo({"1", "9", "a", "/", "_"}, MaxLen)

InitFormat ==
  /\ opts \in FormatOptions
  /\ status = createTextMask(opts)
  /\ fmt \in {[NoFmt EXCEPT !.x = x] : x \in StoredValues}
  /\ host = NoHost /\ pending = <<>> /\ last = NoLast
  /\ stored = Undefined /\ timers = <<>> /\ log = <<>> /\ calls = 0
  /\ call = NoCall /\ twin = NoTwin

\* the exposed format on the stored value
FormatOnce ==
  /\ status = "ok"
  /\ fmt.step = 0
  /\ fmt' = [fmt EXCEPT !.once = format(fmt.x, FALSE), !.step = 1]
  /\ UNCHANGED <<opts, status, host, pending, last, stored, timers, log, calls, call,
               twin>>

\* the exposed format on its own result
FormatTwice ==
  /\ status = "ok"
  /\ fmt.step = 1
  /\ fmt' = [fmt EXCEPT !.twice = format(fmt.once, FALSE), !.step = 2]
  /\ UNCHANGED <<opts, status, host, pending, last, stored, timers, log, calls, call,
               twin>>

NextFormat == FormatOnce \/ FormatTwice

SpecFormat == InitFormat /\ [][NextFormat]_vars

(***************************************************************************)
(* Construction specification: createTextMask called with any options      *)
(***************************************************************************)
CtorOptions ==
  {[DefaultOptions EXCEPT !.pattern = p, !.placeholder = h, !.table = t,
                          !.guide = g] :
     p \in {Undefined, <<>>, <<"/">>, <<"9", "/", "9">>, <<"*", "/">>},
     h \in {Undefined, <<>>, <<"_", "_">>, <<"_">>, <<"#">>, <<"1">>, <<"a">>, <<"9">>},
     t \in {"default", "custom"},
     g \in BOOLEAN}

InitCtor ==
  /\ opts \in CtorOptions
  /\ status = "new"
  /\ host = NoHost /\ pending = <<>> /\ last = NoLast
  /\ stored = Undefined /\ timers = <<>> /\ log = <<>> /\ calls = 0
  /\ call = NoCall /\ fmt = NoFmt /\ twin = NoTwin

\* the call of createTextMask: the engine, or the error thrown
Construct ==
  /\ status = "new"
  /\ status' = createTextMask(opts)
  /\ UNCHANGED <<opts, host, pending, last, stored, timers, log, calls, call, fmt,
               twin>>

\* after construction the exposed operations exist only on an engine
UseEngine ==
  \/ \E kind \in EventKinds, hasTarget \in BOOLEAN : Dispatch(kind, hasTarget)
  \/ Deferred
  \/ FormatOnce

NextCtor == Construct \/ UseEngine

SpecCtor == InitCtor /\ [][NextCtor]_vars

(***************************************************************************)
(* Properties of the caret controller (SpecCaret)                          *)
(***************************************************************************)
ValidSet == {validPositions[i] : i \in 1..Len(validPositions)}

Max(S) == CHOOSE p \in S : \A q \in S : q <= p

Min(S) == CHOOSE p \in S : \A q \in S : p <= q

\* the last step was the deferred step of a keydown with this key
KeySettled(key) == last.type = "keydown" /\ last.key = key

\* C1: after ArrowLeft with the caret read at offset o, the caret is at the
\* largest valid position strictly below o, or at the first valid position
\* when no valid position is below o
C1_ArrowLeftStrictlyLeft ==
  KeySettled("ArrowLeft") =>
    LET o == last.selectionStart
        below == {p \in ValidSet : p < o}
    IN  last.caret = IF below # {} THEN Max(below) ELSE validPositions[1]

\* C2: after ArrowRight dispatched with the caret at offset p, the caret is at
\* the smallest valid position strictly above p, or at the last valid position
\* when no valid position is above p
C2_ArrowRightStrictlyRight ==
  KeySettled("ArrowRight") =>
    LET p == last.previousSelection
        above == {q \in ValidSet : q > p}
    IN  /\ last.caret = IF above # {} THEN Min(above)
                        ELSE validPositions[Len(validPositions)]
        /\ host.selectionStart = last.caret
        /\ host.selectionEnd = last.caret

\* C2 witness: ArrowRight from offset 0 skipped a literal, and ArrowRight
\* from the end of the pattern fell back to the last valid position
C2_Witness ==
  /\ KeySettled("ArrowRight")
  /\ \/ last.previousSelection = 0 /\ last.caret > 1
     \/ last.previousSelection = Len(pattern) /\ host.selectionStart = Max(ValidSet)

\* C3: a change takes the move-left branch exactly when the value grew by one
\* character and the pattern holds, at the previous caret offset, a literal
\* equal to the value's character there; otherwise it goes to the first
\* unfilled position
C3_BackspaceBranchOnlyAtLiteral ==
  last.type = "change" =>
    LET s == last.previousSelection
        atLiteral ==
          /\ Len(host.value) = last.previousLength + 1
          /\ CharAt(pattern, s) # ""
          /\ ~IsSlot(maskDefinitions, CharAt(pattern, s))
          /\ CharAt(host.value, s) = CharAt(pattern, s)
    IN  /\ last.op = "left" <=> atLiteral
        /\ last.op # "left" =>
             /\ last.op = "first"
             /\ last.caret = goToFirstUnfilledPosition(host.value)

\* C4: every caret move of goToNearestValidPosition lands on a valid position
C4_NearestIsValid ==
  last.op \in {"left", "right"} =>
    /\ last.caret \in ValidSet
    /\ host.selectionStart = last.caret
    /\ host.selectionEnd = last.caret

\* C4 witness: a move from an offset with no valid position on that side
C4_Witness ==
  /\ last.op \in {"left", "right"}
  /\ \/ last.op = "left" /\ last.position < Min(ValidSet)
     \/ last.op = "right" /\ last.position > Max(ValidSet)
  /\ host.selectionStart \in ValidSet

(***************************************************************************)
(* Properties of normalize and its callbacks (SpecNorm, SpecNormFair)      *)
(***************************************************************************)
\* the log entries of the last normalize call that are calls of op
CallsOf(op) == SelectSeq(log, LAMBDA e : e.op = op /\ e.call = calls)

\* the onChange calls of the last normalize call are exactly: one call with
\* the returned value when expected, none otherwise
OnChangeIs(expected) ==
  IF expected
  THEN Len(CallsOf("onChange")) = 1 /\ CallsOf("onChange")[1].arg = call.newValue
  ELSE Len(CallsOf("onChange")) = 0

\* C5: normalize calls onChange once, before it returns and with the value it
\* returns, whenever that value differs from previousValue, and not otherwise
C5_OnChangeIffDiffers ==
  (calls > 0 /\ opts.hasOnChange) =>
    /\ OnChangeIs(call.newValue # call.previousValue)
    /\ log[Len(CallsOf("onChange")) + 1].op = "return"

\* C5 as amended: as C5, except that a first call (previousValue undefined)
\* that returns the empty string makes no onChange call; an engine without
\* an onChange option never calls it
C5_OnChangeIffChanged ==
  calls > 0 =>
    /\ OnChangeIs(/\ opts.hasOnChange
                  /\ call.newValue # call.previousValue
                  /\ ~(call.previousValue = Undefined /\ call.newValue = <<>>))
    /\ log[Len(CallsOf("onChange")) + 1].op = "return"

\* C5 witness: both sides happen, a changed value reported and the empty
\* first edit not reported
C5_Witness ==
  /\ calls > 0 /\ opts.hasOnChange
  /\ \/ call.previousValue = Undefined /\ call.newValue = <<>> /\ Len(log) = 1
     \/ Len(CallsOf("onChange")) = 1 /\ call.previousValue # Undefined

\* every slot position of v holds something else than the placeholder
AllSlotsFilled(v) ==
  \A i \in SlotPositions(pattern, maskDefinitions) :
     i < Len(v) /\ v[i + 1] # placeholder

\* the completion callbacks of normalize call k still pending, and those run
\* since the last call began
PendingOf(k) == SelectSeq(timers, LAMBDA e : e.call = k)

RunOf(k) == SelectSeq(log, LAMBDA e : e.op = "onCompletePattern" /\ e.call = k)

C6_ScheduledOnceIffChangedAndComplete ==
  calls > 0 =>
    Len(PendingOf(calls)) + Len(RunOf(calls)) =
      IF /\ opts.hasOnComplete
         /\ call.newValue # call.previousValue
         /\ AllSlotsFilled(call.formattedValue)
      THEN 1 ELSE 0

C6_RunsAfterReturn ==
  \A i \in 1..Len(log) :
     log[i].op = "onCompletePattern" =>
       /\ log[i].call <= calls
       /\ \E j \in 1..(i - 1) : log[j].op = "return"

\* C6: a normalize call schedules onCompletePattern once exactly when it
\* changed the value and every slot of the formatted value is filled; the
\* callback runs only after normalize has returned, and every scheduled
\* callback eventually runs
C6_CompletionScheduling ==
  /\ [](C6_ScheduledOnceIffChangedAndComplete /\ C6_RunsAfterReturn)
  /\ \A k \in 1..MaxCalls : (Len(PendingOf(k)) > 0) ~> (Len(RunOf(k)) > 0)

\* C6 witness: the callback of a completing call has run after its return
C6_Witness ==
  /\ calls > 0
  /\ Len(RunOf(calls)) = 1
  /\ AllSlotsFilled(call.formattedValue)
  /\ timers = <<>>

\* C7: onCompletePattern receives the formatted value of its normalize call
C7_CompleteGetsFormatted ==
  \A i \in 1..Len(log) :
     log[i].op = "onCompletePattern" => log[i].arg = log[i].formattedValue

\* the value a completion timer of a normalize call must carry: the
\* transformed (stripped) value with stripMask on, the formatted value with
\* stripMask off
ReturnedBy(e) == IF stripMask THEN e.transformedValue ELSE e.formattedValue

\* C7 as amended: onCompletePattern receives the value its normalize call
\* returned: the formatted value with stripMask off, and with stripMask on the
\* stripped value (the slot characters, without the literals)
C7_CompleteGetsReturnedValue ==
  /\ \A i \in 1..Len(log) :
       log[i].op = "onCompletePattern" => log[i].arg = ReturnedBy(log[i])
  /\ \A i \in 1..Len(timers) : timers[i].arg = ReturnedBy(timers[i])
  /\ calls > 0 => stored = ReturnedBy(log[Len(CallsOf("onChange")) + 1])

\* C7 witness: with stripMask on, the callback ran with the stripped value
C7_Witness ==
  /\ stripMask
  /\ \E i \in 1..Len(log) :
       /\ log[i].op = "onCompletePattern"
       /\ log[i].arg # log[i].formattedValue
       /\ Len(log[i].formattedValue) = Len(pattern)

(***************************************************************************)
(* Properties of format (SpecFormat)                                       *)
(***************************************************************************)
\* format has been applied to a non-empty stored value in guide mode
GuidedNonEmpty == fmt.step >= 1 /\ guide /\ ~Falsy(fmt.x)

\* C8: in guide mode the formatted text of a non-empty stored value has the
\* length of the pattern, with stripMask on and off
C8_GuideLength == GuidedNonEmpty => Len(fmt.once) = Len(pattern)

\* C8 as amended: in guide mode the formatted text of a non-empty stored
\* value has the length of the pattern when stripMask is on; with stripMask
\* off format returns the stored value as it is, whatever its length
C8_GuideLengthWhenStripping ==
  GuidedNonEmpty =>
    IF stripMask THEN Len(fmt.once) = Len(pattern) ELSE fmt.once = fmt.x

\* C8 witness: a raw value padded to the pattern's length, stripMask on
C8_Witness ==
  /\ GuidedNonEmpty /\ stripMask
  /\ Len(fmt.x) < Len(pattern)
  /\ Len(fmt.once) = Len(pattern)

\* C9: formatting a formatted value changes nothing
C9_FormatIdempotent == fmt.step = 2 => fmt.twice = fmt.once

(***************************************************************************)
(* Properties of construction (SpecCtor)                                   *)
(***************************************************************************)
\* the four configuration errors, stated on the options
PatternMissing(o) == o.pattern = Undefined \/ Len(o.pattern) = 0

PlaceholderNotOneChar(o) ==
  LET h == IF o.placeholder = Undefined THEN <<"_">> ELSE o.placeholder
  IN  Len(h) # 1

NoCaretPosition(o) ==
  ~PatternMissing(o) /\ \A i \in 1..Len(o.pattern) : ~IsSlot(o.table, o.pattern[i])

PlaceholderFitsSlot(o) ==
  LET h == IF o.placeholder = Undefined THEN <<"_">> ELSE o.placeholder
  IN  Len(h) = 1 /\ \E m \in SlotMarkers(o.table) : Match(o.table, m, h[1])

\* C10: construction fails exactly when the pattern is missing or empty, the
\* placeholder is not one character, the pattern has no valid caret position
\* or the placeholder fits a slot; a failed construction leaves no engine
C10_ConstructionFailsIff ==
  /\ status # "new" =>
       (status # "ok" <=>
          \/ PatternMissing(opts)
          \/ PlaceholderNotOneChar(opts)
          \/ NoCaretPosition(opts)
          \/ PlaceholderFitsSlot(opts))
  /\ status # "ok" => pending = <<>> /\ fmt.step = 0 /\ last = NoLast

\* C10 witness: the defaulted placeholder fits a slot of the table, and
\* construction failed for that reason alone
C10_Witness ==
  /\ status = "error: placeholder matches"
  /\ opts.placeholder = Undefined
  /\ ~NoCaretPosition(opts)

\* the selection the host holds is the one the last deferred step read
SelectionKept ==
  /\ host.selectionStart = last.selectionStart
  /\ host.selectionEnd = last.selectionEnd

\* C11: a click whose selection is collapsed on a valid caret position
\* changes no selection (it only suppresses the default action); collapsed on
\* a position that is not valid, it puts the caret on the first unfilled
\* position; with a range selected (start # end) it leaves the selection alone
C11_ClickBranches ==
  last.type = "click" =>
    IF last.selectionStart # last.selectionEnd
    THEN last.op = "none" /\ SelectionKept
    ELSE IF last.selectionStart \in ValidSet
    THEN last.op = "preventDefault" /\ SelectionKept
    ELSE /\ last.op = "first"
         /\ host.selectionStart = goToFirstUnfilledPosition(host.value)
         /\ host.selectionEnd = host.selectionStart

\* a click with the whole of "/9/" selected (start 0 is not a valid position)
\* has run and left the range as it was
C11_Witness ==
  /\ last.type = "click"
  /\ last.selectionStart = 0 /\ last.selectionEnd = 3
  /\ 0 \notin ValidSet
  /\ host.selectionStart = 0 /\ host.selectionEnd = 3

\* a focus event is waiting for its deferred step
FocusPending == \E i \in 1..Len(pending) : pending[i].type = "focus"

\* the slot positions of the host's value that hold the placeholder (or lie
\* beyond the end of the value)
UnfilledSlots ==
  {i \in SlotPositions(pattern, maskDefinitions) :
     CharAt(host.value, i) \in {placeholder, ""}}

\* the earliest unfilled slot, or the position after the last slot
FirstUnfilled ==
  IF UnfilledSlots # {} THEN Min(UnfilledSlots)
  ELSE Max(SlotPositions(pattern, maskDefinitions)) + 1

\* the deferred step of a focus event has just run and the selection is
\* collapsed on the first unfilled position of the value the host holds
FocusSettled ==
  /\ last.type = "focus"
  /\ host.selectionStart = FirstUnfilled
  /\ host.selectionEnd = FirstUnfilled

\* C12: every focus event is eventually followed by a collapsed selection
\* [p, p], p being the first unfilled position of the value the host holds
\* when the deferred step runs: the earliest slot holding the placeholder, or
\* the position after the last slot when every slot is filled
C12_FocusLeadsToFirstUnfilled == FocusPending ~> FocusSettled

\* the focus step ran on the empty skeleton "/_/" and the caret is at offset 1,
\* and on the filled "/9/" it is after the last slot
C12_Witness ==
  /\ FocusSettled
  /\ \/ host.value = <<"/", "_", "/">> /\ host.selectionStart = 1
     \/ host.value = <<"/", "9", "/">> /\ host.selectionStart = 2

\* C14: the handlers never change the host's value: the synchronous part of a
\* handler leaves the host as it is, the deferred step changes at most the
\* selection, to a collapsed range [pos, pos], and an event with no target
\* schedules nothing and changes nothing
C14_HandlersOnlySetSelection ==
  [][/\ Len(pending') > Len(pending) => host' = host
     /\ Len(pending') < Len(pending) =>
          /\ host'.value = host.value
          /\ host' = host \/ host'.selectionStart = host'.selectionEnd
     /\ last'.op = "no target" => pending' = pending /\ host' = host]_vars

\* an event without target was handled while "9/_" was shown with a range
\* selected, and nothing is pending
C14_Witness ==
  /\ last.op = "no target"
  /\ pending = <<>>
  /\ host = [value |-> <<"9", "/", "_">>, selectionStart |-> 0, selectionEnd |-> 3]

\* the last step was the deferred step of a change event that took the
\* backspace-over-literal branch
BackspaceBranchTaken == last.type = "change" /\ last.op = "left"

\* the valid positions strictly before offset s
ValidBefore(s) == {p \in ValidSet : p < s}

\* C15: in the backspace-over-literal branch, with captured offset s, the
\* caret is set to the nearest valid position strictly before s whenever a
\* valid position below s exists (not the first valid position, not s
\* itself), also when s is at or beyond the last valid position
C15_BackspaceMovesStrictlyLeft ==
  BackspaceBranchTaken /\ ValidBefore(last.previousSelection) # {} =>
    /\ last.caret = Max(ValidBefore(last.previousSelection))
    /\ host.selectionStart = last.caret
    /\ host.selectionEnd = last.caret

\* the snapshot the last deferred step used is the one taken when its own
\* event was dispatched
OwnSnapshotUsed ==
  last.type # "" =>
    /\ last.previousSelection = last.ownSelection
    /\ last.previousLength = last.ownLength

\* the steps run so far
StepsRun == calls - Len(pending)

\* C16: the caret controller works in two phases: the snapshot is read when
\* the event is dispatched, which leaves the host alone, and the host is read
\* again and the caret written only in the deferred step; each deferred step
\* uses the snapshot of its own event, also when two events are dispatched
\* before either step runs, and every dispatched event's step eventually runs
C16_TwoPhases ==
  /\ []OwnSnapshotUsed
  /\ [][Len(pending') > Len(pending) => host' = host]_vars
  /\ \A k \in 1..MaxEvents : (calls >= k) ~> (StepsRun >= k)

\* two events wait for their steps, dispatched at different caret offsets
C16_Witness ==
  /\ Len(pending) = 2
  /\ pending[1].previousSelection # pending[2].previousSelection
  /\ pending[1].previousValue # pending[2].previousValue

\* both engines have handled the same edits
TwinsInStep == twin.turn = "stripping" /\ calls > 0

\* C17: two engines that differ only in stripMask display the same text:
\* starting from an empty store and handed the same edited values, each with
\* the value it returned before, their format(stored) is the same after every
\* step, and with stripMask = false the stored value is the displayed text
C17_SameDisplay ==
  TwinsInStep =>
    /\ twin.shown = twin.shownStripping
    /\ twin.stored = twin.shown

\* after two edits both engines show "9/"; one stores "9", the other "9/"
C17_Witness ==
  /\ TwinsInStep
  /\ calls = 2
  /\ stored = <<"9">>
  /\ twin.stored = <<"9", "/">>
  /\ twin.shownStripping = <<"9", "/">>

\* v holds only characters that the slots accept, slot by slot in pattern
\* order, and no more characters than there are slots
CanonicalStripped(v) ==
  /\ Len(v) <= Len(strippedPattern)
  /\ \A i \in 1..Len(v) : Match(maskDefinitions, strippedPattern[i], v[i])

\* C18: with stripMask = true every value v that normalize returns is a
\* canonical stripped value (slot-accepted characters in pattern order, at
\* most as many as the slots), so that maskStrip(format(v)) = v and
\* normalize(format(v), v) = v without onChange or onCompletePattern
C18_ReturnedValueCanonical ==
  calls > 0 /\ stripMask =>
    /\ CanonicalStripped(stored)
    /\ maskStrip(format(stored, FALSE), pattern, placeholder, maskDefinitions) = stored
    /\ normalize(format(stored, FALSE), stored).newValue = stored
    /\ normalize(format(stored, FALSE), stored).effects = <<>>

====
